---------------------------- MODULE Spec2Model ----------------------------
(***************************************************************************)
(* A model of response.go of the untappd client: the three                 *)
(* json.Unmarshaler implementations responseTime, responseURL and          *)
(* responseBool.                                                           *)
(*                                                                         *)
(* Go strings are sequences of one-character strings.  Unsigned 64-bit     *)
(* quantities (time.ParseDuration works on uint64 nanoseconds) are         *)
(* sequences of decimal digits, most significant first, because the        *)
(* values that decide the overflow branches lie near 2^63.                 *)
(***************************************************************************)
EXTENDS Integers, Sequences, FiniteSets, TLC

VARIABLES
    r,      \* the destination of the last call: [type, val, pre]
    last,   \* the last completed call: [dec, data, err, line]
    memo,   \* one remembered earlier call and its outcome
    g       \* the goroutines of the concurrent specification

vars == <<r, last, memo, g>>

-----------------------------------------------------------------------------
(* Bounds of the model.                                                    *)

\* URL strings are all the strings over UrlAlphabet of at most this length.
MaxUrlLen == 4

\* JSON integers given to responseBool range over -MaxSmallInt..MaxSmallInt,
\* besides the literals around the ends of Go's int.
MaxSmallInt == 2

\* The goroutines that call the decoders at the same time.
NumProcs == 2

-----------------------------------------------------------------------------
(* Evaluation helpers: the value of e is worked out once and handed to Op. *)

Bind(e, Op(_)) == CHOOSE y \in {Op(v) : v \in {e}} : TRUE

Bind2(e1, e2, Op(_, _)) == CHOOSE y \in {Op(v, w) : v \in {e1}, w \in {e2}} : TRUE

-----------------------------------------------------------------------------
(* Natural numbers as digit sequences.                                     *)

Zeros(k) == [i \in 1..k |-> 0]

\* d without its leading zeros (zero is <<0>>)
StripZeros(d0) ==
    Bind(d0, LAMBDA d :
      LET nz == {i \in 1..Len(d) : d[i] # 0}
      IN  IF nz = {} THEN <<0>>
          ELSE SubSeq(d, CHOOSE i \in nz : \A j \in nz : i <= j, Len(d)))

\* a < b
Less(a, b) ==
    Bind2(StripZeros(a), StripZeros(b), LAMBDA x, y :
      IF Len(x) # Len(y) THEN Len(x) < Len(y)
      ELSE \E i \in 1..Len(x) :
              /\ x[i] < y[i]
              /\ \A j \in 1..(i - 1) : x[j] = y[j])

\* a + b: the carry into a position is 1 exactly when some position to its
\* right generates one and every position between passes it on
Add(a0, b0) ==
    Bind2(a0, b0, LAMBDA a, b :
      Bind(IF Len(a) > Len(b) THEN Len(a) + 1 ELSE Len(b) + 1, LAMBDA n :
        Bind2(Zeros(n - Len(a)) \o a, Zeros(n - Len(b)) \o b, LAMBDA x, y :
          LET cin(i) == \E j \in (i + 1)..n :
                           /\ x[j] + y[j] >= 10
                           /\ \A k \in (i + 1)..(j - 1) : x[k] + y[k] = 9
          IN  StripZeros([i \in 1..n |->
                            (x[i] + y[i] + (IF cin(i) THEN 1 ELSE 0)) % 10]))))

\* a * d for one digit d
MulDigit(a0, d) ==
    Bind(a0, LAMBDA a :
      Bind(Add(a, a), LAMBDA a2 :
        Bind(Add(a2, a2), LAMBDA a4 :
          Add(Add(IF d % 2 = 1 THEN a ELSE <<0>>,
                  IF (d \div 2) % 2 = 1 THEN a2 ELSE <<0>>),
              Add(IF (d \div 4) % 2 = 1 THEN a4 ELSE <<0>>,
                  IF d >= 8 THEN Add(a4, a4) ELSE <<0>>)))))

\* a * 10^k
Shift(a, k) == StripZeros(a \o Zeros(k))

\* a * b, summed over the digits of b that are not zero
RECURSIVE MulSum(_, _, _)
MulSum(a, b, I) ==
    IF I = {} THEN <<0>>
    ELSE Bind(CHOOSE j \in I : TRUE, LAMBDA i :
           Add(Shift(MulDigit(a, b[i]), Len(b) - i), MulSum(a, b, I \ {i})))

Mul(a0, b0) ==
    Bind2(a0, b0, LAMBDA a, b : MulSum(a, b, {i \in 1..Len(b) : b[i] # 0}))

\* a \div 10^k
DropLast(a0, k) ==
    Bind(a0, LAMBDA a :
      IF Len(a) <= k THEN <<0>> ELSE StripZeros(SubSeq(a, 1, Len(a) - k)))

\* 1<<63, the bound of every overflow test of the time package
TwoPow63 == <<9,2,2,3,3,7,2,0,3,6,8,5,4,7,7,5,8,0,8>>

\* 1<<63 - 1, the largest time.Duration (and the largest int on a 64-bit build)
MaxInt64 == <<9,2,2,3,3,7,2,0,3,6,8,5,4,7,7,5,8,0,7>>

-----------------------------------------------------------------------------
(* Strings and errors.                                                     *)

DigitChars == <<"0", "1", "2", "3", "4", "5", "6", "7", "8", "9">>

IsDigit(c) == \E i \in 1..10 : DigitChars[i] = c

\* c - '0'
DigitVal(c) == (CHOOSE i \in 1..10 : DigitChars[i] = c) - 1

\* the decimal text of a digit sequence
DigitText(d) == [i \in 1..Len(d) |-> DigitChars[d[i] + 1]]

HasPrefix(s, p) == Len(s) >= Len(p) /\ SubSeq(s, 1, Len(p)) = p

\* s[i:], with i counted from 0 as in Go
From(s, i) == SubSeq(s, i + 1, Len(s))

\* the error values of the packages involved; nil is "nil"
nil == "nil"

errInvalidBool == "invalid boolean value"

errInvalidTimeUnit == "invalid time unit"

\* encoding/json: malformed text, and a value of the wrong shape for the target
errJSONSyntax == "json: syntax error"

errJSONType == "json: cannot unmarshal value into Go value"

\* package time: the three messages of ParseDuration
errTimeInvalid == "time: invalid duration"

errTimeMissingUnit == "time: missing unit in duration"

errTimeUnknownUnit == "time: unknown unit"

\* net/url
errURLControl == "parse: net/url: invalid control character in URL"

errURLMissingScheme == "parse: missing protocol scheme"

errURLColon == "parse: first path segment in URL cannot contain colon"

errURLPort == "parse: invalid port after host"

errURLEscape == "parse: invalid URL escape"

errURLHost == "parse: invalid character in host name"

-----------------------------------------------------------------------------
(* JSON texts, by the value they denote.                                   *)

\* bytes that are no JSON text at all
JSyntax == [kind |-> "syntax"]

JNull == [kind |-> "null"]

JBool(b) == [kind |-> "bool", b |-> b]

\* a number literal -int.frac without exponent; frac = <<>> is a literal
\* without a decimal point
JNum(neg, int, frac) == [kind |-> "number", neg |-> neg, int |-> int, frac |-> frac]

JStr(s) == [kind |-> "string", s |-> s]

JArray == [kind |-> "array"]

\* an absent member of an object
Missing == [kind |-> "missing"]

\* an object, by its members "time" and "measure" (other members are ignored
\* by the decoder)
JObject(t, m) == [kind |-> "object", time |-> t, measure |-> m]

\* the float64 zero
FloatZero == [neg |-> FALSE, int |-> <<0>>, frac |-> <<>>]

\* a decoder of the struct that refuses an object without "time" or without
\* "measure"
jsonUnmarshalStructStrict(data) ==
    LET t == data.time
        m == data.measure
    IN  CASE data.kind = "syntax" ->
               [err |-> errJSONSyntax, Time |-> FloatZero, Measure |-> <<>>]
          [] data.kind = "null" ->
               [err |-> nil, Time |-> FloatZero, Measure |-> <<>>]
          [] data.kind = "object" ->
               [err     |-> IF t.kind = "number" /\ m.kind = "string"
                            THEN nil ELSE errJSONType,
                Time    |-> IF t.kind = "number"
                            THEN [neg |-> t.neg, int |-> t.int, frac |-> t.frac]
                            ELSE FloatZero,
                Measure |-> IF m.kind = "string" THEN m.s ELSE <<>>]
          [] OTHER ->
               [err |-> errJSONType, Time |-> FloatZero, Measure |-> <<>>]

\* json.Unmarshal(data, &v) for v struct{Time float64; Measure string}: a
\* member that is absent or null leaves its field at the zero value, a member of
\* the wrong type is an UnmarshalTypeError, null as the whole text is a no-op
jsonUnmarshalStruct(data) ==
    LET t == data.time
        m == data.measure
        tOk == t.kind \in {"missing", "null", "number"}
        mOk == m.kind \in {"missing", "null", "string"}
    IN  CASE data.kind = "syntax" ->
               [err |-> errJSONSyntax, Time |-> FloatZero, Measure |-> <<>>]
          [] data.kind = "null" ->
               [err |-> nil, Time |-> FloatZero, Measure |-> <<>>]
          [] data.kind = "object" ->
               [err     |-> IF tOk /\ mOk THEN nil ELSE errJSONType,
                Time    |-> IF t.kind = "number"
                            THEN [neg |-> t.neg, int |-> t.int, frac |-> t.frac]
                            ELSE FloatZero,
                Measure |-> IF m.kind = "string" THEN m.s ELSE <<>>]
          [] OTHER ->
               [err |-> errJSONType, Time |-> FloatZero, Measure |-> <<>>]

\* json.Unmarshal(data, &v) for v string
jsonUnmarshalString(data) ==
    CASE data.kind = "syntax" -> [err |-> errJSONSyntax, v |-> <<>>]
      [] data.kind = "null"   -> [err |-> nil, v |-> <<>>]
      [] data.kind = "string" -> [err |-> nil, v |-> data.s]
      [] OTHER                -> [err |-> errJSONType, v |-> <<>>]

\* whether strconv.ParseInt(lit, 10, 64) accepts the literal: an integer
\* literal in -1<<63 .. 1<<63-1
FitsInt(n) ==
    /\ n.frac = <<>>
    /\ IF n.neg THEN ~Less(TwoPow63, n.int) ELSE ~Less(MaxInt64, n.int)

\* a Go int: sign and magnitude
IntZero == [neg |-> FALSE, mag |-> <<0>>]

\* a decoder of int that truncates a number with decimals instead of
\* refusing it
jsonUnmarshalIntTruncating(data) ==
    CASE data.kind = "syntax" -> [err |-> errJSONSyntax, v |-> IntZero]
      [] data.kind = "null"   -> [err |-> nil, v |-> IntZero]
      [] data.kind = "number" ->
           IF FitsInt([data EXCEPT !.frac = <<>>])
           THEN [err |-> nil,
                 v   |-> [neg |-> data.neg /\ StripZeros(data.int) # <<0>>,
                          mag |-> StripZeros(data.int)]]
           ELSE [err |-> errJSONType, v |-> IntZero]
      [] OTHER                -> [err |-> errJSONType, v |-> IntZero]

\* json.Unmarshal(data, &v) for v int: a number literal that is no integer, or
\* does not fit the int, is an UnmarshalTypeError
jsonUnmarshalInt(data) ==
    CASE data.kind = "syntax" -> [err |-> errJSONSyntax, v |-> IntZero]
      [] data.kind = "null"   -> [err |-> nil, v |-> IntZero]
      [] data.kind = "number" ->
           IF FitsInt(data)
           THEN [err |-> nil,
                 v   |-> [neg |-> data.neg /\ StripZeros(data.int) # <<0>>,
                          mag |-> StripZeros(data.int)]]
           ELSE [err |-> errJSONType, v |-> IntZero]
      [] OTHER                -> [err |-> errJSONType, v |-> IntZero]

-----------------------------------------------------------------------------
(* fmt.Sprintf("%f", x) and time.ParseDuration.                            *)

\* A float64 is given by its decimal expansion [neg, int, frac].  "%f" prints
\* it with six decimals, rounded to nearest.  The expansions the model feeds
\* in have at most seven decimals and never a tie at the seventh, so the
\* rounding of the decimal is the rounding of the float64 nearest to it.
FormatF(x) ==
    Bind(StripZeros(x.int) \o SubSeq(x.frac \o Zeros(6), 1, 6), LAMBDA whole :
      Bind(Zeros(6) \o (IF Len(x.frac) > 6 /\ x.frac[7] >= 5
                        THEN Add(whole, <<1>>) ELSE StripZeros(whole)),
           LAMBDA n :
        (IF x.neg THEN <<"-">> ELSE <<>>)
        \o DigitText(StripZeros(SubSeq(n, 1, Len(n) - 6)))
        \o <<".">>
        \o DigitText(SubSeq(n, Len(n) - 5, Len(n)))))

\* the number of leading digit characters of s
DigitRun(s) ==
    CHOOSE k \in 0..Len(s) :
        /\ \A j \in 1..k : IsDigit(s[j])
        /\ k = Len(s) \/ ~IsDigit(s[k + 1])

\* the value of the first k characters of s, all digits
DigitsOf(s, k) == StripZeros([j \in 1..k |-> DigitVal(s[j])])

\* leadingInt: the leading digits of s as a uint64 and the rest of s.  Its loop
\* gives up when x > 1<<63/10 before a digit or x > 1<<63 after it, which is
\* when the value of the digits exceeds 1<<63.
leadingInt(s0) ==
    Bind(s0, LAMBDA s :
      Bind(DigitRun(s), LAMBDA k :
        Bind(DigitsOf(s, k), LAMBDA x :
          IF Less(TwoPow63, x)
          THEN [x |-> <<0>>, rem |-> From(s, k), ok |-> FALSE]
          ELSE [x |-> x, rem |-> From(s, k), ok |-> TRUE])))

\* leadingFraction: the digits after the point as a uint64 and their number
\* (scale = 10^digits).  Once x > (1<<63-1)/10 before a digit, or the value
\* with the digit exceeds 1<<63, the remaining digits are skipped.
leadingFraction(s0) ==
    Bind(s0, LAMBDA s :
      Bind(DigitRun(s), LAMBDA k :
        LET ok(m) == /\ ~Less(DropLast(MaxInt64, 1), DigitsOf(s, m - 1))
                     /\ ~Less(TwoPow63, DigitsOf(s, m))
        IN  Bind(CHOOSE m \in 0..k :
                    /\ \A j \in 1..m : ok(j)
                    /\ m = k \/ ~ok(m + 1),
                 LAMBDA used :
                   [x |-> DigitsOf(s, used), digits |-> used, rem |-> From(s, k)])))

\* the length of the unit: the characters up to the next '.' or digit
UnitLen(s0) ==
    Bind(s0, LAMBDA s :
      CHOOSE k \in 0..Len(s) :
        /\ \A j \in 1..k : ~(s[j] = "." \/ IsDigit(s[j]))
        /\ k = Len(s) \/ s[k + 1] = "." \/ IsDigit(s[k + 1]))

\* unitMap of package time, in nanoseconds (its ASCII entries)
unitMap ==
    (<<"n", "s">> :> <<1>>) @@ (<<"u", "s">> :> Shift(<<1>>, 3)) @@
    (<<"m", "s">> :> Shift(<<1>>, 6)) @@ (<<"s">> :> Shift(<<1>>, 9)) @@
    (<<"m">> :> Shift(<<6>>, 10)) @@ (<<"h">> :> Shift(<<3, 6>>, 11))

\* a time.Duration: sign and magnitude in nanoseconds
DurationZero == [neg |-> FALSE, mag |-> <<0>>]

PDFail(e) == [d |-> DurationZero, err |-> e]

\* one group number+unit of a duration string, li and lf being its leading
\* integer and fraction: the nanoseconds it stands for and the rest of the
\* string.  v > 1<<63/unit is stated as v*unit > 1<<63, which is the same test
\* for integers.  The fraction's share uint64(float64(f)*(float64(unit)/scale))
\* is f*unit/scale cut to an integer: exact whenever unit/scale is an integer.
ParseGroup(li, lf, pre, post) ==
    Bind(UnitLen(lf.rem), LAMBDA i :
      Bind(SubSeq(lf.rem, 1, i), LAMBDA u :
        IF ~li.ok THEN [err |-> errTimeInvalid]
        ELSE IF ~pre /\ ~post THEN [err |-> errTimeInvalid]
        ELSE IF i = 0 THEN [err |-> errTimeMissingUnit]
        ELSE IF u \notin DOMAIN unitMap THEN [err |-> errTimeUnknownUnit]
        ELSE Bind(Mul(li.x, unitMap[u]), LAMBDA v1 :
               IF Less(TwoPow63, v1) THEN [err |-> errTimeInvalid]
               ELSE Bind(IF lf.x # <<0>>
                         THEN Add(v1, DropLast(Mul(lf.x, unitMap[u]), lf.digits))
                         ELSE v1,
                         LAMBDA v2 :
                           IF Less(TwoPow63, v2) THEN [err |-> errTimeInvalid]
                           ELSE [err |-> nil, v |-> v2, rest |-> From(lf.rem, i)]))))

\* the loop of ParseDuration over the groups of s; d is the sum so far
RECURSIVE ParseDurationLoop(_, _, _)
ParseDurationLoop(s0, d0, neg) ==
    Bind2(s0, d0, LAMBDA s, d :
      IF s = <<>>
      THEN IF neg
           THEN [d |-> [neg |-> d # <<0>>, mag |-> d], err |-> nil]
           ELSE IF Less(MaxInt64, d) THEN PDFail(errTimeInvalid)
           ELSE [d |-> [neg |-> FALSE, mag |-> d], err |-> nil]
      ELSE IF ~(s[1] = "." \/ IsDigit(s[1])) THEN PDFail(errTimeInvalid)
      ELSE
        Bind(leadingInt(s), LAMBDA li :
          Bind(IF li.rem # <<>> /\ li.rem[1] = "."
               THEN leadingFraction(Tail(li.rem))
               ELSE [x |-> <<0>>, digits |-> 0, rem |-> li.rem],
               LAMBDA lf :
            Bind(ParseGroup(li, lf, Len(li.rem) # Len(s),
                            li.rem # <<>> /\ li.rem[1] = "."
                              /\ Len(lf.rem) # Len(li.rem) - 1),
                 LAMBDA grp :
                   IF grp.err # nil THEN PDFail(grp.err)
                   ELSE Bind(Add(d, grp.v), LAMBDA d2 :
                          IF Less(TwoPow63, d2) THEN PDFail(errTimeInvalid)
                          ELSE ParseDurationLoop(grp.rest, d2, neg))))))

\* time.ParseDuration(s): the duration and the error
ParseDuration(s0) ==
    Bind(s0, LAMBDA s :
      LET signed == s # <<>> /\ s[1] \in {"-", "+"}
          neg    == signed /\ s[1] = "-"
          body   == IF signed THEN Tail(s) ELSE s
      IN  IF body = <<"0">> THEN [d |-> DurationZero, err |-> nil]
          ELSE IF body = <<>> THEN PDFail(errTimeInvalid)
          ELSE ParseDurationLoop(body, <<0>>, neg))

-----------------------------------------------------------------------------
(* responseTime.                                                           *)

Str_milliseconds == <<"m", "i", "l", "l", "i", "s", "e", "c", "o", "n", "d", "s">>

Str_seconds == <<"s", "e", "c", "o", "n", "d", "s">>

Str_minutes == <<"m", "i", "n", "u", "t", "e", "s">>

\* the table with "minutes" given the suffix of milliseconds
timeUnitsMinutesAsMs ==
    (Str_milliseconds :> <<"m", "s">>) @@ (Str_seconds :> <<"s">>) @@
    (Str_minutes :> <<"m", "s">>)

\* the map built on each call; a key that is absent reads as ""
timeUnits ==
    (Str_milliseconds :> <<"m", "s">>) @@ (Str_seconds :> <<"s">>) @@
    (Str_minutes :> <<"m">>)

timeUnitsAt(measure) ==
    IF measure \in DOMAIN timeUnits THEN timeUnits[measure] ELSE <<>>

\* strings.Contains(err.Error(), "time: missing unit in duration")
IsMissingUnit(err) == err = errTimeMissingUnit

\* the decoder without the check of line 33: the error of json.Unmarshal is
\* dropped and the zero-valued struct is formatted and parsed
responseTimeUnchecked(data) ==
    LET v  == jsonUnmarshalStruct(data)
        pd == ParseDuration(FormatF(v.Time) \o timeUnitsAt(v.Measure))
    IN  IF pd.err # nil /\ IsMissingUnit(pd.err)
        THEN [err |-> errInvalidTimeUnit, line |-> 47, store |-> FALSE,
              val |-> DurationZero]
        ELSE [err |-> pd.err, line |-> 51, store |-> TRUE, val |-> pd.d]

\* (*responseTime).UnmarshalJSON(data): the error returned, the line of the
\* return statement, and whether and what the call stores in *r.  Line 50
\* stores d before err is looked at again, so a parse error other than the
\* missing unit stores the zero duration ParseDuration returns with it.
responseTimeUnmarshalJSON(data) ==
    LET v  == jsonUnmarshalStruct(data)
        pd == ParseDuration(FormatF(v.Time) \o timeUnitsAt(v.Measure))
    IN  IF v.err # nil
        THEN [err |-> v.err, line |-> 34, store |-> FALSE, val |-> DurationZero]
        ELSE IF pd.err # nil /\ IsMissingUnit(pd.err)
        THEN [err |-> errInvalidTimeUnit, line |-> 47, store |-> FALSE,
              val |-> DurationZero]
        ELSE [err |-> pd.err, line |-> 51, store |-> TRUE, val |-> pd.d]

-----------------------------------------------------------------------------
(* net/url.Parse, for strings of lower-case letters, digits and            *)
(* punctuation (no user info, no IPv6 literal).  Path and Fragment are     *)
(* kept in their escaped form.                                             *)

Letters ==
    {"a", "b", "c", "d", "e", "f", "g", "h", "i", "j", "k", "l", "m",
     "n", "o", "p", "q", "r", "s", "t", "u", "v", "w", "x", "y", "z"}

HexChars == {"a", "b", "c", "d", "e", "f"} \cup {DigitChars[i] : i \in 1..10}

ControlChars == {"\n", "\t", "\r"}

\* strings.Index(s, c), or -1
Index(s, c) ==
    LET at == {i \in 1..Len(s) : s[i] = c}
    IN  IF at = {} THEN -1 ELSE (CHOOSE i \in at : \A j \in at : i <= j) - 1

\* strings.LastIndex(s, c), or -1
LastIndex(s, c) ==
    LET at == {i \in 1..Len(s) : s[i] = c}
    IN  IF at = {} THEN -1 ELSE (CHOOSE i \in at : \A j \in at : i >= j) - 1

\* strings.Cut(s, c)
Cut(s0, c) ==
    Bind(s0, LAMBDA s :
      Bind(Index(s, c), LAMBDA i :
        IF i < 0 THEN [before |-> s, after |-> <<>>, found |-> FALSE]
        ELSE [before |-> SubSeq(s, 1, i), after |-> From(s, i + 1),
              found |-> TRUE]))

URLZero ==
    [Scheme |-> <<>>, Opaque |-> <<>>, Host |-> <<>>, Path |-> <<>>,
     RawQuery |-> <<>>, Fragment |-> <<>>, ForceQuery |-> FALSE]

\* getScheme: [scheme, rest, err]
getScheme(rawURL) ==
    LET stop == {i \in 1..Len(rawURL) :
                    /\ rawURL[i] \notin Letters
                    /\ i = 1 \/ ~(IsDigit(rawURL[i]) \/ rawURL[i] \in {"+", "-", "."})}
    IN  IF stop = {} THEN [scheme |-> <<>>, rest |-> rawURL, err |-> nil]
        ELSE Bind(CHOOSE k \in stop : \A j \in stop : k <= j, LAMBDA i :
               IF rawURL[i] # ":"
               THEN [scheme |-> <<>>, rest |-> rawURL, err |-> nil]
               ELSE IF i = 1
               THEN [scheme |-> <<>>, rest |-> <<>>, err |-> errURLMissingScheme]
               ELSE [scheme |-> SubSeq(rawURL, 1, i - 1), rest |-> From(rawURL, i),
                     err |-> nil])

\* unescape fails on a '%' that two hex digits do not follow
BadEscape(s) ==
    \E i \in 1..Len(s) :
        /\ s[i] = "%"
        /\ ~(i + 2 <= Len(s) /\ s[i + 1] \in HexChars /\ s[i + 2] \in HexChars)

\* in a host an escape must denote a non-ASCII byte, or be %25
BadHostEscape(s) ==
    \E i \in 1..Len(s) :
        /\ s[i] = "%"
        /\ i + 2 <= Len(s)
        /\ s[i + 1] \in {DigitChars[k] : k \in 1..8}
        /\ SubSeq(s, i, i + 2) # <<"%", "2", "5">>

\* the characters unescape accepts in a host besides letters and digits
HostPunct ==
    {"-", "_", ".", "~", "!", "$", "&", "'", "(", ")", "*", "+", ",", ";",
     "=", ":", "[", "]", "<", ">", "\"", "%"}

\* validOptionalPort
validOptionalPort(port) ==
    \/ port = <<>>
    \/ port[1] = ":" /\ \A j \in 2..Len(port) : IsDigit(port[j])

\* parseAuthority without user info: the error of parseHost
parseHostErr(host) ==
    IF LastIndex(host, ":") >= 0 /\ ~validOptionalPort(From(host, LastIndex(host, ":")))
    THEN errURLPort
    ELSE IF BadEscape(host) \/ BadHostEscape(host) THEN errURLEscape
    ELSE IF \E j \in 1..Len(host) :
               ~(host[j] \in Letters \/ IsDigit(host[j]) \/ host[j] \in HostPunct)
    THEN errURLHost
    ELSE nil

\* the part of parse after the scheme and the query are split off: rest is
\* what is left of the URL, base the URL so far
parseRest(base, rest) ==
    LET auth == /\ HasPrefix(rest, <<"/", "/">>)
                /\ base.Scheme # <<>> \/ ~HasPrefix(rest, <<"/", "/", "/">>)
    IN  IF ~HasPrefix(rest, <<"/">>) /\ base.Scheme # <<>>
        THEN [url |-> [base EXCEPT !.Opaque = rest], err |-> nil]
        ELSE IF ~HasPrefix(rest, <<"/">>) /\ Index(Cut(rest, "/").before, ":") >= 0
        THEN [url |-> URLZero, err |-> errURLColon]
        ELSE IF ~auth
        THEN IF BadEscape(rest) THEN [url |-> URLZero, err |-> errURLEscape]
             ELSE [url |-> [base EXCEPT !.Path = rest], err |-> nil]
        ELSE Bind(Cut(From(rest, 2), "/"), LAMBDA a :
               Bind(IF a.found THEN <<"/">> \o a.after ELSE <<>>, LAMBDA path :
                 IF parseHostErr(a.before) # nil
                 THEN [url |-> URLZero, err |-> parseHostErr(a.before)]
                 ELSE IF BadEscape(path) THEN [url |-> URLZero, err |-> errURLEscape]
                 ELSE [url |-> [base EXCEPT !.Host = a.before, !.Path = path],
                       err |-> nil]))

\* parse(rawURL, viaRequest = false): [url, err]
parse(rawURL0) ==
    Bind(rawURL0, LAMBDA rawURL :
      IF \E i \in 1..Len(rawURL) : rawURL[i] \in ControlChars
      THEN [url |-> URLZero, err |-> errURLControl]
      ELSE IF rawURL = <<"*">>
      THEN [url |-> [URLZero EXCEPT !.Path = <<"*">>], err |-> nil]
      ELSE Bind(getScheme(rawURL), LAMBDA gs :
             IF gs.err # nil THEN [url |-> URLZero, err |-> gs.err]
             ELSE IF /\ gs.rest # <<>>
                     /\ gs.rest[Len(gs.rest)] = "?"
                     /\ Cardinality({i \in 1..Len(gs.rest) : gs.rest[i] = "?"}) = 1
             THEN parseRest([URLZero EXCEPT !.Scheme = gs.scheme, !.ForceQuery = TRUE],
                            SubSeq(gs.rest, 1, Len(gs.rest) - 1))
             ELSE Bind(Cut(gs.rest, "?"), LAMBDA q :
                    parseRest([URLZero EXCEPT !.Scheme = gs.scheme,
                                              !.RawQuery = q.after],
                              q.before))))

\* url.Parse(rawURL): the fragment is cut off first and set last
Parse(rawURL) ==
    Bind(Cut(rawURL, "#"), LAMBDA c :
      Bind(parse(c.before), LAMBDA p :
        IF p.err # nil THEN p
        ELSE IF c.after = <<>> THEN p
        ELSE IF BadEscape(c.after) THEN [url |-> URLZero, err |-> errURLEscape]
        ELSE [url |-> [p.url EXCEPT !.Fragment = c.after], err |-> nil]))

-----------------------------------------------------------------------------
(* responseURL and responseBool.                                           *)

\* the decoder with url.ParseRequestURI's demand in place of url.Parse: a
\* string without a scheme that does not begin with "/" is refused
responseURLRequestURI(data) ==
    LET v == jsonUnmarshalString(data)
        u == Parse(v.v)
    IN  IF v.err # nil
        THEN [err |-> v.err, line |-> 62, store |-> FALSE, val |-> URLZero]
        ELSE IF u.err # nil
        THEN [err |-> u.err, line |-> 67, store |-> FALSE, val |-> URLZero]
        ELSE IF u.url.Scheme = <<>> /\ ~HasPrefix(v.v, <<"/">>)
        THEN [err |-> errURLMissingScheme, line |-> 67, store |-> FALSE,
              val |-> URLZero]
        ELSE [err |-> nil, line |-> 71, store |-> TRUE, val |-> u.url]

\* (*responseURL).UnmarshalJSON(data)
responseURLUnmarshalJSON(data) ==
    LET v == jsonUnmarshalString(data)
        u == Parse(v.v)
    IN  IF v.err # nil
        THEN [err |-> v.err, line |-> 62, store |-> FALSE, val |-> URLZero]
        ELSE IF u.err # nil
        THEN [err |-> u.err, line |-> 67, store |-> FALSE, val |-> URLZero]
        ELSE [err |-> nil, line |-> 71, store |-> TRUE, val |-> u.url]

\* the decoder with C's truth of integers: 0 is false, the rest is true
responseBoolNonZero(data) ==
    LET v == jsonUnmarshalInt(data)
    IN  IF v.err # nil
        THEN [err |-> v.err, line |-> 82, store |-> FALSE, val |-> FALSE]
        ELSE [err |-> nil, line |-> 94, store |-> TRUE, val |-> v.v # IntZero]

\* (*responseBool).UnmarshalJSON(data)
responseBoolUnmarshalJSON(data) ==
    LET v == jsonUnmarshalInt(data)
    IN  IF v.err # nil
        THEN [err |-> v.err, line |-> 82, store |-> FALSE, val |-> FALSE]
        ELSE IF v.v = IntZero
        THEN [err |-> nil, line |-> 94, store |-> TRUE, val |-> FALSE]
        ELSE IF v.v = [neg |-> FALSE, mag |-> <<1>>]
        THEN [err |-> nil, line |-> 94, store |-> TRUE, val |-> TRUE]
        ELSE [err |-> errInvalidBool, line |-> 91, store |-> FALSE, val |-> FALSE]

-----------------------------------------------------------------------------
(* The inputs.                                                             *)

Str_fortnights == <<"f", "o", "r", "t", "n", "i", "g", "h", "t", "s">>

\* values of "time" below a few thousand: every combination of these whole
\* parts and decimals, of either sign
SmallWholes == {<<0>>, <<1>>, <<1, 5, 0, 0>>}

Fractions ==
    {<<>>, <<5>>, <<0, 0, 0, 0, 0, 1>>, <<0, 0, 0, 0, 0, 0, 1>>,
     <<0, 0, 0, 0, 0, 0, 9>>, <<9, 9, 9, 9, 9, 9, 9>>, <<1, 2, 3, 4, 5, 6, 4>>}

\* 1<<63 + 2048, the float64 after 1<<63
AfterTwoPow63 == <<9,2,2,3,3,7,2,0,3,6,8,5,4,7,7,7,8,5,6>>

TenPow19 == <<1,0,0,0,0,0,0,0,0,0,0,0,0,0,0,0,0,0,0,0>>

\* values of "time" around the places where the product with a unit passes
\* 1<<63 nanoseconds; each is a float64
LargeTimes ==
    {[int |-> <<9,2,2,3,3,7,2,0,3,6>>, frac |-> <<>>],
     [int |-> <<9,2,2,3,3,7,2,0,3,6>>, frac |-> <<5>>],
     [int |-> <<9,2,2,3,3,7,2,0,3,6>>, frac |-> <<8, 7, 5>>],
     [int |-> <<9,2,2,3,3,7,2,0,3,7>>, frac |-> <<>>],
     [int |-> <<1,5,3,7,2,2,8,6,7>>, frac |-> <<>>],
     [int |-> <<1,5,3,7,2,2,8,6,8>>, frac |-> <<>>],
     [int |-> <<9,2,2,3,3,7,2,0,3,6,8,5,4>>, frac |-> <<>>],
     [int |-> <<9,2,2,3,3,7,2,0,3,6,8,5,5>>, frac |-> <<>>],
     [int |-> TwoPow63, frac |-> <<>>],
     [int |-> AfterTwoPow63, frac |-> <<>>],
     [int |-> TenPow19, frac |-> <<>>]}

TimeNumbers ==
    {JNum(n, w, f) : n \in BOOLEAN, w \in SmallWholes, f \in Fractions}
    \cup {JNum(n, t.int, t.frac) : n \in BOOLEAN, t \in LargeTimes}

\* the values of "time" paired with a measure that is no unit: zero, negative,
\* fractional, and at and past the largest integer part ParseDuration reads
UnitlessTimes ==
    {JNum(FALSE, <<0>>, <<>>), JNum(TRUE, <<0>>, <<>>), JNum(FALSE, <<1>>, <<>>),
     JNum(TRUE, <<1, 5, 0, 0>>, <<5>>), JNum(FALSE, <<0>>, <<0, 0, 0, 0, 0, 0, 1>>),
     JNum(FALSE, TwoPow63, <<>>), JNum(FALSE, AfterTwoPow63, <<>>),
     JNum(FALSE, TenPow19, <<>>), JNum(TRUE, TenPow19, <<>>)}

KnownMeasures == {JStr(Str_milliseconds), JStr(Str_seconds), JStr(Str_minutes)}

\* the member "measure" when it names no unit: other strings, absent, null, or
\* of the wrong type
OtherMeasures ==
    {JStr(<<>>), JStr(Str_fortnights), Missing, JNull, JNum(FALSE, <<1>>, <<>>)}

\* the member "time" when it is no number: absent, null, or of the wrong type
OtherTimes == {Missing, JNull, JStr(<<"1">>)}

\* texts that are no object
NonObjects == {JSyntax, JNull, JBool(TRUE), JNum(FALSE, <<1>>, <<>>), JStr(<<>>), JArray}

TimeInputs ==
    {JObject(t, m) : t \in TimeNumbers, m \in KnownMeasures}
    \cup {JObject(t, m) : t \in UnitlessTimes, m \in OtherMeasures}
    \cup {JObject(t, m) : t \in OtherTimes, m \in KnownMeasures \cup OtherMeasures}
    \cup NonObjects

UrlAlphabet == {"a", ":", "/", "?", "#", "%"}

UrlStrings == UNION {[1..n -> UrlAlphabet] : n \in 0..MaxUrlLen}

URLInputs ==
    {JStr(u) : u \in UrlStrings}
    \cup {JSyntax, JNull, JBool(TRUE), JNum(FALSE, <<1>>, <<>>), JArray,
          JObject(Missing, Missing)}

\* the integer literals around the ends of a 64-bit int
EdgeInts == {MaxInt64, TwoPow63, Add(TwoPow63, <<1>>)}

\* the decimal digits of a small natural number
SmallDigits(k) == IF k < 10 THEN <<k>> ELSE <<k \div 10, k % 10>>

BoolInputs ==
    {JNum(n, SmallDigits(k), <<>>) : n \in BOOLEAN, k \in 0..MaxSmallInt}
    \cup {JNum(n, e, <<>>) : n \in BOOLEAN, e \in EdgeInts}
    \cup {JNum(FALSE, <<1>>, <<0>>), JNum(FALSE, <<0>>, <<5>>), JNum(FALSE, <<1>>, <<5>>)}
    \cup {JSyntax, JNull, JBool(TRUE), JBool(FALSE), JStr(<<"1">>), JArray,
          JObject(Missing, Missing)}

-----------------------------------------------------------------------------
(* One goroutine.  The caller sets up a destination of one of the three    *)
(* types, holding the zero value or what an earlier decode left there, and *)
(* calls its UnmarshalJSON.                                                *)

Types == {"time", "url", "bool"}

\* var r responseTime / responseURL / responseBool
ZeroValue(t) ==
    CASE t = "time" -> DurationZero
      [] t = "url"  -> URLZero
      [] t = "bool" -> FALSE

\* the calls on the inputs of the model, worked out once
timeCalls == [data \in TimeInputs |-> responseTimeUnmarshalJSON(data)]

urlCalls == [data \in URLInputs |-> responseURLUnmarshalJSON(data)]

boolCalls == [data \in BoolInputs |-> responseBoolUnmarshalJSON(data)]

\* r.UnmarshalJSON(data) for a receiver of type t
UnmarshalJSON(t, data) ==
    CASE t = "time" -> timeCalls[data]
      [] t = "url"  -> urlCalls[data]
      [] t = "bool" -> boolCalls[data]

\* a call that never assigns: the destination keeps what it held
DerefKept(cur, o) == cur

\* *r after the call: the assignments of lines 50, 70, 87 and 89
Deref(cur, o) == IF o.store THEN o.val ELSE cur

\* texts whose decoding leaves a value other than the zero value
SeedTime == JObject(JNum(FALSE, <<1, 5, 0, 0>>, <<>>), JStr(Str_milliseconds))

SeedURL == JStr(<<"/", "a">>)

SeedBool == JNum(FALSE, <<1>>, <<>>)

\* what a destination may hold when a call begins: the zero value, or what
\* the decoding of the text above left (1.5 s, the URL of path /a, true)
HeldTime == responseTimeUnmarshalJSON(SeedTime).val

HeldURL == responseURLUnmarshalJSON(SeedURL).val

HeldBool == responseBoolUnmarshalJSON(SeedBool).val

PriorTimes == {DurationZero, HeldTime}

PriorURLs == {URLZero, HeldURL}

PriorBools == {FALSE, HeldBool}

Priors(t) ==
    CASE t = "time" -> PriorTimes
      [] t = "url"  -> PriorURLs
      [] t = "bool" -> PriorBools

NoCall == [dec |-> "none", data |-> JNull, err |-> nil, line |-> 0]

NoMemo == [dec |-> "none", data |-> JNull, err |-> nil, val |-> FALSE, pre |-> FALSE]

Procs == 1..NumProcs

\* a goroutine that runs no call
Idle ==
    [pc |-> "idle", t |-> "none", data |-> JNull, pre |-> FALSE, dst |-> FALSE,
     v |-> FALSE, res |-> FALSE, err |-> nil]

GInit == [p \in Procs |-> Idle]

Init ==
    /\ r = [type |-> "time", val |-> ZeroValue("time"), pre |-> ZeroValue("time")]
    /\ last = NoCall
    /\ memo = NoMemo
    /\ g = GInit

\* the caller sets up a variable of type t that holds pre
Declare(t, pre) ==
    /\ r' = [type |-> t, val |-> pre, pre |-> pre]
    /\ last' = NoCall
    /\ UNCHANGED <<memo, g>>

\* r.UnmarshalJSON(data)
Call(data) ==
    LET o == UnmarshalJSON(r.type, data)
    IN  /\ r' = [r EXCEPT !.val = Deref(r.val, o), !.pre = r.val]
        /\ last' = [dec |-> r.type, data |-> data, err |-> o.err, line |-> o.line]
        /\ UNCHANGED <<memo, g>>

DeclareAny == \E t \in Types : \E pre \in Priors(t) : Declare(t, pre)

\* one call on a variable just set up
DecodeTime ==
    /\ r.type = "time"
    /\ last = NoCall
    /\ \E data \in TimeInputs : Call(data)

DecodeURL ==
    /\ r.type = "url"
    /\ last = NoCall
    /\ \E data \in URLInputs : Call(data)

DecodeBool ==
    /\ r.type = "bool"
    /\ last = NoCall
    /\ \E data \in BoolInputs : Call(data)

Next == DeclareAny \/ DecodeTime \/ DecodeURL \/ DecodeBool

Spec == Init /\ [][Next]_vars

-----------------------------------------------------------------------------
(* One destination over many calls.  The variable keeps what the calls     *)
(* leave in it; memo remembers one earlier call: its input, what the       *)
(* destination held before and after, and the error.                       *)

HistTimeInputs ==
    {JObject(JNum(FALSE, <<1, 5, 0, 0>>, <<>>), JStr(Str_milliseconds)),
     JObject(JNum(FALSE, <<1>>, <<>>), JStr(Str_minutes)),
     JObject(JNum(FALSE, <<0>>, <<0, 0, 0, 0, 0, 0, 9>>), JStr(Str_seconds)),
     JObject(JNum(FALSE, TenPow19, <<>>), JStr(Str_seconds)),
     JObject(JNum(FALSE, <<1>>, <<>>), JStr(Str_fortnights)),
     JObject(Missing, JStr(Str_seconds)),
     JNull, JArray}

HistURLInputs ==
    {JStr(<<>>), JStr(<<"/", "a">>), JStr(<<"a", ":", "a">>), JStr(<<":">>),
     JStr(<<"%">>), JNull, JArray}

HistBoolInputs ==
    {JNum(FALSE, <<0>>, <<>>), JNum(FALSE, <<1>>, <<>>), JNum(FALSE, <<2>>, <<>>),
     JNum(TRUE, <<1>>, <<>>), JNum(FALSE, TwoPow63, <<>>), JNull, JArray}

HistInputs(t) ==
    CASE t = "time" -> HistTimeInputs
      [] t = "url"  -> HistURLInputs
      [] t = "bool" -> HistBoolInputs

\* the call just made is the one remembered from now on
HistRemember ==
    /\ last.dec # "none"
    /\ memo' = [dec |-> last.dec, data |-> last.data, err |-> last.err,
                val |-> r.val, pre |-> r.pre]
    /\ UNCHANGED <<r, last, g>>

\* a further call on the variable as the calls before left it
HistCallAny == \E data \in HistInputs(r.type) : Call(data)

NextHist == DeclareAny \/ HistCallAny \/ HistRemember

SpecHist == Init /\ [][NextHist]_vars

-----------------------------------------------------------------------------
(* Several goroutines, each decoding into a destination of its own.  A     *)
(* call is cut at its statements: json.Unmarshal into the local v, the     *)
(* lookup and parse (or the switch), the assignment to *r, the return.     *)
(* Every local, the unit table of line 38 included, lives in the           *)
(* goroutine's own record.                                                 *)

ConcTimeInputs ==
    {JObject(JNum(FALSE, <<1>>, <<>>), JStr(Str_minutes)),
     JObject(JNum(FALSE, TenPow19, <<>>), JStr(Str_seconds)),
     JObject(JNum(FALSE, <<1>>, <<>>), JStr(Str_fortnights))}

ConcURLInputs == {JStr(<<"a", ":", "a">>), JArray}

ConcBoolInputs == {JNum(FALSE, <<0>>, <<>>), JNum(FALSE, <<2>>, <<>>)}

ConcInputs(t) ==
    CASE t = "time" -> ConcTimeInputs
      [] t = "url"  -> ConcURLInputs
      [] t = "bool" -> ConcBoolInputs

\* what each destination holds when its call begins: the value an earlier
\* decode left there
ConcPrior(t) ==
    CASE t = "time" -> HeldTime
      [] t = "url"  -> HeldURL
      [] t = "bool" -> HeldBool

\* lines 33, 61 and 81: json.Unmarshal(data, &v)
Unmarshal(t, data) ==
    CASE t = "time" -> jsonUnmarshalStruct(data)
      [] t = "url"  -> jsonUnmarshalString(data)
      [] t = "bool" -> jsonUnmarshalInt(data)

\* lines 38-48, 65-68 and 85-92 after a decode without error: whether the
\* call returns here, with which error, and what it is about to assign
Resolve(t, v) ==
    CASE t = "time" ->
           LET units == timeUnits
               unit  == IF v.Measure \in DOMAIN units THEN units[v.Measure] ELSE <<>>
               pd    == ParseDuration(FormatF(v.Time) \o unit)
           IN  IF pd.err # nil /\ IsMissingUnit(pd.err)
               THEN [ret |-> TRUE, err |-> errInvalidTimeUnit, d |-> DurationZero]
               ELSE [ret |-> FALSE, err |-> pd.err, d |-> pd.d]
      [] t = "url" ->
           LET u == Parse(v.v)
           IN  IF u.err # nil
               THEN [ret |-> TRUE, err |-> u.err, d |-> URLZero]
               ELSE [ret |-> FALSE, err |-> nil, d |-> u.url]
      [] t = "bool" ->
           IF v.v = IntZero THEN [ret |-> FALSE, err |-> nil, d |-> FALSE]
           ELSE IF v.v = [neg |-> FALSE, mag |-> <<1>>]
           THEN [ret |-> FALSE, err |-> nil, d |-> TRUE]
           ELSE [ret |-> TRUE, err |-> errInvalidBool, d |-> FALSE]

\* goroutine p calls UnmarshalJSON(data) on its own variable of type t
GoCall(p, t, data) ==
    /\ g[p].pc = "idle"
    /\ g' = [g EXCEPT ![p] = [Idle EXCEPT !.pc = "unmarshal", !.t = t,
                                          !.data = data, !.pre = ConcPrior(t),
                                          !.dst = ConcPrior(t)]]
    /\ UNCHANGED <<r, last, memo>>

StepUnmarshal(p) ==
    /\ g[p].pc = "unmarshal"
    /\ LET v == Unmarshal(g[p].t, g[p].data)
       IN  g' = [g EXCEPT ![p].v = v, ![p].err = v.err,
                          ![p].pc = IF v.err # nil THEN "done" ELSE "resolve"]
    /\ UNCHANGED <<r, last, memo>>

StepResolve(p) ==
    /\ g[p].pc = "resolve"
    /\ LET x == Resolve(g[p].t, g[p].v)
       IN  g' = [g EXCEPT ![p].res = x,
                          ![p].err = IF x.ret THEN x.err ELSE nil,
                          ![p].pc = IF x.ret THEN "done" ELSE "store"]
    /\ UNCHANGED <<r, last, memo>>

\* the assignment written through a variable that the calls of one type
\* share, instead of through the receiver
StepStoreShared(p) ==
    /\ g[p].pc = "store"
    /\ g' = [q \in Procs |->
               IF q = p
               THEN [g[p] EXCEPT !.dst = g[p].res.d, !.err = g[p].res.err,
                                 !.pc = "done"]
               ELSE IF g[q].t = g[p].t THEN [g[q] EXCEPT !.dst = g[p].res.d]
               ELSE g[q]]
    /\ UNCHANGED <<r, last, memo>>

\* lines 50-51, 70-71, and 87 or 89 with 94: *r = ..., and the return
StepStore(p) ==
    /\ g[p].pc = "store"
    /\ g' = [g EXCEPT ![p].dst = g[p].res.d, ![p].err = g[p].res.err,
                      ![p].pc = "done"]
    /\ UNCHANGED <<r, last, memo>>

\* the caller has read the outcome; the goroutine is free for another call
Return(p) ==
    /\ g[p].pc = "done"
    /\ g' = [g EXCEPT ![p] = Idle]
    /\ UNCHANGED <<r, last, memo>>

GoCallAny ==
    \E p \in Procs, t \in Types : \E data \in ConcInputs(t) : GoCall(p, t, data)

StepUnmarshalAny == \E p \in Procs : StepUnmarshal(p)

StepResolveAny == \E p \in Procs : StepResolve(p)

StepStoreAny == \E p \in Procs : StepStore(p)

ReturnAny == \E p \in Procs : Return(p)

NextConc ==
    GoCallAny \/ StepUnmarshalAny \/ StepResolveAny \/ StepStoreAny \/ ReturnAny

SpecConc == Init /\ [][NextConc]_vars

-----------------------------------------------------------------------------
(* The properties.  Those about one call are stated on the state after     *)
(* the call: last is the call, r.pre what the destination held before it,  *)
(* r.val what it holds after.                                              *)

JSONErrors == {errJSONSyntax, errJSONType}

KnownNames == {Str_milliseconds, Str_seconds, Str_minutes}

\* the call was on an object whose "time" is a number and whose "measure" is
\* a string
WellShaped ==
    /\ last.dec = "time"
    /\ last.data.kind = "object"
    /\ last.data.time.kind = "number"
    /\ last.data.measure.kind = "string"

\* the nanoseconds of one unit
UnitNanos(name) ==
    CASE name = Str_milliseconds -> <<1, 0, 0, 0, 0, 0, 0>>
      [] name = Str_seconds      -> <<1, 0, 0, 0, 0, 0, 0, 0, 0, 0>>
      [] name = Str_minutes      -> <<6, 0, 0, 0, 0, 0, 0, 0, 0, 0, 0>>

\* the number t in millionths, rounded to the nearest millionth
Millionths(t) ==
    LET whole == t.int \o SubSeq(t.frac \o Zeros(6), 1, 6)
    IN  IF Len(t.frac) > 6 /\ t.frac[7] >= 5
        THEN Add(whole, <<1>>) ELSE StripZeros(whole)

\* t rounded to the nearest millionth, times the unit, in nanoseconds
RoundedNanos(t, name) == DropLast(Mul(Millionths(t), UnitNanos(name)), 6)

\* C1 (as the code has it): for time >= 0 and a measure of the table, the call
\* stores time rounded to six decimals times the unit when that is at most
\* 1<<63 - 1 nanoseconds, and returns no error; beyond that it returns
\* "time: invalid duration".
C1_RoundedScaling ==
    (WellShaped /\ last.data.measure.s \in KnownNames /\ ~last.data.time.neg)
    => LET n == RoundedNanos(last.data.time, last.data.measure.s)
       IN  IF ~Less(MaxInt64, n)
           THEN last.err = nil /\ r.val = [neg |-> FALSE, mag |-> n]
           ELSE last.err = errTimeInvalid

\* C1 (as the claim has it): for time >= 0 and a measure of the table, the call
\* returns no error and stores exactly time times the unit, however fine the
\* decimals of time and however large the product.
C1_ExactScaling ==
    (WellShaped /\ last.data.measure.s \in KnownNames /\ ~last.data.time.neg)
    => /\ last.err = nil
       /\ ~r.val.neg
       /\ Shift(r.val.mag, Len(last.data.time.frac))
            = Mul(StripZeros(last.data.time.int \o last.data.time.frac),
                  UnitNanos(last.data.measure.s))

\* a time with a seventh decimal was decoded: 0.0000009 s became 1 microsecond
C1_SeventhDecimalRounded ==
    /\ last.dec = "time"
    /\ last.data = JObject(JNum(FALSE, <<0>>, <<0, 0, 0, 0, 0, 0, 9>>), JStr(Str_seconds))
    /\ last.err = nil
    /\ r.val = [neg |-> FALSE, mag |-> <<1, 0, 0, 0>>]

\* C2: for a well-shaped object whose measure is no unit of the table, and any
\* number as time, the call fails with errInvalidTimeUnit.
C2_UnknownUnitIsInvalidTimeUnit ==
    (WellShaped /\ last.data.measure.s \notin KnownNames)
    => last.err = errInvalidTimeUnit

ZeroOrOne ==
    /\ last.data.kind = "number"
    /\ last.data.frac = <<>>
    /\ \/ StripZeros(last.data.int) = <<0>>
       \/ StripZeros(last.data.int) = <<1>> /\ ~last.data.neg

\* C4 (as the code has it): responseBool succeeds only on the integer 0 or 1
\* or on null, and null stores false; an array, object, string, true or false,
\* or a number with decimals returns the JSON decoder's error and leaves the
\* destination as it was.
C4_SuccessOnZeroOneOrNull ==
    last.dec = "bool"
    => /\ last.err = nil => (last.data = JNull \/ ZeroOrOne)
       /\ last.data = JNull => (last.err = nil /\ r.val = FALSE)
       /\ last.data.kind \notin {"number", "null"}
            => (last.err \in JSONErrors /\ r.val = r.pre)
       /\ (last.data.kind = "number" /\ last.data.frac # <<>>)
            => (last.err = errJSONType /\ r.val = r.pre)

\* C4 (as the claim has it): every input of responseBool that is no integer,
\* null included, returns the JSON decoder's error.
C4_NonIntegersFail ==
    (last.dec = "bool" /\ ~(last.data.kind = "number" /\ last.data.frac = <<>>))
    => last.err \in JSONErrors

\* null was given to a responseBool that held true, and left false in it
C4_NullStoredFalse ==
    /\ last.dec = "bool"
    /\ last.data = JNull
    /\ last.err = nil
    /\ r.pre = TRUE
    /\ r.val = FALSE

\* C5 (as the code has it): an object without "time" decodes as time 0: with a
\* measure of the table it stores the zero duration without error.  An object
\* without "measure" is refused, never with the JSON decoder's error, and with
\* errInvalidTimeUnit when "time" is absent too.  The JSON decoder's error is
\* returned for a member of the wrong type.
C5_AbsentMembers ==
    (last.dec = "time" /\ last.data.kind = "object")
    => LET t == last.data.time
           m == last.data.measure
       IN  /\ (t.kind = "missing" /\ m.kind = "string" /\ m.s \in KnownNames)
                => (last.err = nil /\ r.val = DurationZero)
           /\ (m.kind = "missing" /\ t.kind \in {"missing", "null", "number"})
                => last.err \notin JSONErrors \cup {nil}
           /\ (m.kind = "missing" /\ t.kind = "missing")
                => (last.err = errInvalidTimeUnit /\ r.val = r.pre)
           /\ (t.kind \notin {"missing", "null", "number"}
                 \/ m.kind \notin {"missing", "null", "string"})
                => (last.err = errJSONType /\ r.val = r.pre)

\* C5 (as the claim has it): an object without "time" or without "measure" is
\* refused with the JSON decoder's error.
C5_AbsentMemberIsShapeError ==
    (last.dec = "time" /\ last.data.kind = "object"
       /\ (last.data.time.kind = "missing" \/ last.data.measure.kind = "missing"))
    => last.err \in JSONErrors

\* {"measure": "seconds"} was decoded into a responseTime that held 1.5 s, and
\* left the zero duration in it
C5_AbsentTimeStoredZero ==
    /\ last.dec = "time"
    /\ last.data = JObject(Missing, JStr(Str_seconds))
    /\ last.err = nil
    /\ r.pre # DurationZero
    /\ r.val = DurationZero

\* C6: each of the three decoders, given an array, returns the JSON decoder's
\* type error at its first return statement, ahead of the unit lookup, the URL
\* parse and the switch, and assigns nothing.
C6_ArrayIsShapeError ==
    (last.dec # "none" /\ last.data = JArray)
    => /\ last.err = errJSONType
       /\ last.line = (CASE last.dec = "time" -> 34
                         [] last.dec = "url"  -> 62
                         [] last.dec = "bool" -> 82)
       /\ r.val = r.pre

\* an array was given to a responseURL that held a URL
C6_ArrayGivenToURL ==
    /\ last.dec = "url"
    /\ last.data = JArray
    /\ last.err # nil
    /\ r.pre # URLZero

\* C7: whenever a decoder returns an error, the destination holds what it held
\* before the call.
C7_ErrorLeavesDestination ==
    (last.dec # "none" /\ last.err # nil) => r.val = r.pre

\* C8: a call with the input of a remembered earlier call of the same decoder
\* returns the same error, and on success leaves the same value, whatever the
\* destination held and whichever calls came between.
C8_SameInputSameOutcome ==
    (memo.dec # "none" /\ last.dec = memo.dec /\ last.data = memo.data)
    => /\ last.err = memo.err
       /\ last.err = nil => r.val = memo.val

\* the input of a remembered successful call was decoded again, into a
\* destination that held something else than at the remembered call
C8_RepeatedOnOtherContents ==
    /\ memo.dec = "time"
    /\ last.dec = "time"
    /\ last.data = memo.data
    /\ last.err = nil
    /\ r.pre # memo.pre
    /\ r.val # DurationZero

\* C9: under every interleaving, a call that has returned has returned the
\* error, and left in its destination the value, of the same call run alone;
\* and no destination changes before its own call assigns to it.
C9_AsIfAlone ==
    \A p \in Procs :
        /\ g[p].pc \in {"unmarshal", "resolve", "store"} => g[p].dst = g[p].pre
        /\ g[p].pc = "done"
             => LET o == UnmarshalJSON(g[p].t, g[p].data)
                IN  g[p].err = o.err /\ g[p].dst = Deref(g[p].pre, o)

\* a responseTime call has returned with its value stored while another
\* responseTime call, on other input, is about to assign
C9_OneDoneOneStoring ==
    /\ g[1].pc = "done"
    /\ g[1].t = "time"
    /\ g[1].err = nil
    /\ g[1].dst # g[1].pre
    /\ g[2].pc = "store"
    /\ g[2].t = "time"
    /\ g[2].data # g[1].data

\* C10: on a JSON string responseURL returns exactly url.Parse's error; when
\* there is none it stores the parsed URL, relative ones included; and ""
\* stores a URL with empty scheme, host and path.
C10_StringsAsParsed ==
    (last.dec = "url" /\ last.data.kind = "string")
    => LET p == Parse(last.data.s)
       IN  /\ last.err = p.err
           /\ p.err = nil => r.val = p.url
           /\ last.data.s = <<>>
                => /\ last.err = nil
                   /\ r.val.Scheme = <<>> /\ r.val.Host = <<>> /\ r.val.Path = <<>>
           /\ last.data.s = <<"/", "a">>
                => (last.err = nil /\ r.val.Path = <<"/", "a">>)
           /\ last.data.s = <<"a">>
                => (last.err = nil /\ r.val.Path = <<"a">> /\ r.val.Scheme = <<>>)
           /\ last.data.s = <<":">> => last.err = errURLMissingScheme

\* "" was decoded into a responseURL that held a URL, and left the empty URL
C10_EmptyStringDecoded ==
    /\ last.dec = "url"
    /\ last.data = JStr(<<>>)
    /\ last.err = nil
    /\ r.pre # URLZero
    /\ r.val = URLZero

=============================================================================
